---- MODULE Spec2Model ----
(***************************************************************************)
(* A model of two parts of LOOS:                                           *)
(*   - DCDWriter (src/dcdwriter.hpp, src/dcdwriter.cpp): the writer's      *)
(*     fields, the output stream (contents and put position) and the       *)
(*     public operations setHeader, setTitles, setTitle, addTitle,         *)
(*     writeHeader, writeFrame and writeFrame(vector);                     *)
(*   - AtomicGroup::superposition and AtomicGroup::alignOnto               *)
(*     (src/AG_linalg.cpp).                                                *)
(*                                                                         *)
(* The stream is modelled in units of one 4-byte word: every item the      *)
(* writer emits (record lengths, the 21-word control block, 80-byte        *)
(* titles, floats, the halves of a double) is a whole number of words.     *)
(* A word is a pair <<tag, value>>; an unsigned word is named by the        *)
(* signed value of its 32 bits (natoms*3 - 6 of one atom is the word -3),  *)
(* and the inputs keep every counter far from 2^31.                        *)
(***************************************************************************)
EXTENDS Integers, Sequences, FiniteSets, TLC

\* ------------------------------------------------------------------ bounds
MaxAtoms == 2       \* largest group handed to writeFrame / setHeader
MaxCalls == 3       \* calls made on one writer
MaxShift == 1       \* the moving group is displaced by 0..MaxShift steps
MaxFrames == 4      \* frames of the ensembles the convergence tools are given lists for
UIntBits == 3       \* the width of uint, scaled down from 32 bits
SizeBits == 6       \* the width of size_t, scaled down from 64 bits (LP64: wider than uint)

\* --------------------------------------------------------------- constants
WordBytes    == 4            \* sizeof(unsigned int), sizeof(float)
IcntrlWords  == 21           \* unsigned int icntrl[21]
TitleWords   == 20           \* fixStringSize(_titles[i], 80): 80 bytes
DcdVersion   == 27           \* icntrl[20] = 27
UnitCellAngle == 90          \* default_unit_cell_angle
FloatExact   == 16777216     \* 2^24: integers up to here are exact in a float

\* ------------------------------------------------------------------- state
VARIABLES
  _natoms, _nsteps, _timestep, _current, _has_box, _header_written, _titles,
  file, pos,            \* the stream: its words and its put position (in words)
  op, arg, err, ops,    \* the last call: its name, argument, exception, stream operations
  firstRecord,          \* history: kind of the first record ever put on the stream
  frames,               \* history: the groups accepted by writeFrame, in order
  calls,                \* history: the number of calls made on the writer
  frameAt,              \* history: the stream positions (in words) that hold words of frame records
  clobbered,            \* history: a header has been written over words of a frame record
  atoms, grp,           \* coordinates of the moving group (this) and of the reference group
  ret,                  \* the GMatrix the last call returned (<<>>: none)
  sop, serr,            \* the last AtomicGroup call and the exception it threw (<<>>: none)
  rot,                  \* the array M = U * Vt of the last call (<<>>: none)
  info,                 \* the status dgesvd_ or dsyev_ set in the last call
  mass,                 \* the masses of the atoms of the moving group
  tensor,               \* the array the last call handed to dsyev_ (<<>>: none)
  Rin, detOut,          \* a 3x3 array R and the determinant computed from it (<<>>: none)
  pdb,                  \* the fields of a PDB object (<<>>: none constructed yet)
  pdbFrom,              \* history: the fields of the PDB it was copied from (<<>>: none)
  pdbop, perr,          \* the last PDB call and the exception it threw ("": none)
  strictCalled,         \* history: strict(true) has been called on the object
  tool, tpc,            \* the convergence tool that runs and its position in main
  nframes,              \* ensemble.size() after readTrajectory
  blocks,               \* the block sizes (avgconv: blocks; block_avgconv: sizes)
  optflag,              \* avgconv: locally_optimal; block_avgconv: do_align
  bidx,                 \* the index of the block size being worked on (0-based)
  preceding,            \* avgconv: the structure compared against (<<>>: none yet)
  rows,                 \* the rows printed on cout
  istate, iters, irmsd, \* iterativeAlignment: its state, iterations done, last RMSD test
  iret,                 \* where iterativeAlignment returns to
  navg, tj, ti,         \* block_avgconv: averages.size() and the loop counters j, i
  recs                  \* block_avgconv: the pairs (j, i) pushed onto rmsds

dcdVars == <<_natoms, _nsteps, _timestep, _current, _has_box, _header_written,
             _titles, file, pos, op, arg, err, ops, firstRecord, frames, calls,
             frameAt, clobbered>>
supVars == <<atoms, grp, ret, sop, serr, rot, info>>
linVars == <<mass, tensor, Rin, detOut>>
pdbVars == <<pdb, pdbFrom, pdbop, perr, strictCalled>>
toolVars == <<tool, tpc, nframes, blocks, optflag, bidx, preceding, rows,
              istate, iters, irmsd, iret, navg, tj, ti, recs>>
elseVars == <<pdbVars, toolVars>>
vars    == <<dcdVars, supVars, linVars, elseVars>>

\* ------------------------------------------------------------------ inputs
\* Title strings, as sequences of 4-character chunks (a chunk is a word).
Chunk(k)   == <<"chr", k>>
Blank      == Chunk(0)                                   \* four spaces
AutoTitle  == [k \in 1..6 |-> Chunk(k)]                  \* "AUTO GENERATED BY LOOS" (22 chars, blank-filled to 24)
LongTitle  == [k \in 1..(TitleWords + 1) |-> Chunk(100 + k)]   \* 84 characters: longer than a title slot

\* Atom i has coordinates (x, y, z), all distinct; those of the atoms after the
\* first lie above 2^24, where a float no longer holds every integer.
AtomCoord(i) ==
  LET base == IF i = 1 THEN 0 ELSE FloatExact
  IN  <<base + 10 * i + 1, base + 10 * i + 2, base + 10 * i + 3>>

\* An AtomicGroup as the writer sees it: size(), isPeriodic(), periodicBox(), coords().
MkGroup(n, p) ==
  [coords   |-> [i \in 1..n |-> AtomCoord(i)],
   periodic |-> p,
   box      |-> IF p THEN <<40 + n, 50 + n, 60 + n>> ELSE <<0, 0, 0>>]

GroupSizes == {0, 1, MaxAtoms}
Groups == {MkGroup(n, p) : n \in GroupSizes, p \in BOOLEAN}

Size(g) == Len(g.coords)

\* Vectors handed to writeFrame(vector): non-empty groups without a box.
VecGroups == {g \in Groups : ~g.periodic /\ Size(g) >= 1}

\* Arguments of setHeader: atoms, steps, timestep (in units of 0.001), box flag.
HeaderArgs == {<<na, ns, 2, bf>> : na \in {1, MaxAtoms}, ns \in {0, 1}, bf \in BOOLEAN}

\* Vectors handed to writeFrame(vector): of zero, one and two groups.
VecInputs == {<<>>} \cup {<<g>> : g \in VecGroups} \cup {<<g, h>> : g \in VecGroups, h \in VecGroups}

\* ------------------------------------------------------------------ stream
Max(a, b) == IF a >= b THEN a ELSE b

\* ostream::write at the put position p (0-based): overwrites, then extends.
StreamWrite(f, p, ws) ==
  [i \in 1..Max(Len(f), p + Len(ws)) |->
     IF i > p /\ i <= p + Len(ws) THEN ws[i - p] ELSE f[i]]

\* float(v) for an integer-valued double v: exact up to 2^24, then rounded to even.
ToFloat(v) ==
  IF v <= FloatExact /\ -v <= FloatExact THEN v
  ELSE IF v % 2 = 0 THEN v
  ELSE IF ((v + 1) \div 2) % 2 = 0 THEN v + 1 ELSE v - 1

\* writeF77Line: the length, the data, the length again.
F77Line(data) ==
  <<<<"len", WordBytes * Len(data)>>>> \o data \o <<<<"len", WordBytes * Len(data)>>>>

\* fixStringSize(s, n): blank-fill or cut to n.
fixStringSize(s, n) ==
  IF Len(s) < n THEN s \o [k \in 1..(n - Len(s)) |-> Blank]
  ELSE IF Len(s) > n THEN SubSeq(s, 1, n)
  ELSE s

RECURSIVE TitleBlock(_)
TitleBlock(ts) ==
  IF ts = <<>> THEN <<>>
  ELSE fixStringSize(Head(ts), TitleWords) \o TitleBlock(Tail(ts))

CordWord == <<"chr", -1>>      \* dop[0].c = 'C', 'O', 'R', 'D'

\* icntrl[0..20] as writeHeader fills it (index k is 0-based).
Icntrl(w) ==
  [i \in 1..IcntrlWords |->
     LET k == i - 1 IN
     IF k = 0 THEN CordWord
     ELSE IF k = 1 \/ k = 4 THEN <<"ui", w.nsteps>>
     ELSE IF k = 2 \/ k = 3 THEN <<"ui", 1>>
     ELSE IF k = 8 THEN <<"ui", w.natoms * 3 - 6>>
     ELSE IF k = 10 THEN <<"f32", ToFloat(w.timestep)>>
     ELSE IF k = 11 THEN <<"ui", IF w.has_box THEN 1 ELSE 0>>
     ELSE IF k = 20 THEN <<"ui", DcdVersion>>
     ELSE <<"ui", 0>>]

\* The three records of a header.
HeaderWords(w) ==
  F77Line(Icntrl(w))
    \o F77Line(<<<<"ui", Len(w.titles)>>>> \o TitleBlock(w.titles))
    \o F77Line(<<<<"ui", w.natoms>>>>)

\* A writer as a record, so that the operations compose.
Put(w, kind, ws) ==
  [w EXCEPT !.file = StreamWrite(w.file, w.pos, ws),
            !.pos  = w.pos + Len(ws),
            !.ops  = Append(w.ops, kind),
            !.firstRecord = IF w.firstRecord = "none"
                            THEN (IF kind = "header" THEN "header" ELSE "frame")
                            ELSE w.firstRecord,
            !.frameAt = IF kind = "header"
                        THEN w.frameAt \ ((w.pos + 1)..(w.pos + Len(ws)))
                        ELSE w.frameAt \cup ((w.pos + 1)..(w.pos + Len(ws))),
            !.clobbered = \/ w.clobbered
                          \/ /\ kind = "header"
                             /\ w.frameAt \cap ((w.pos + 1)..(w.pos + Len(ws))) # {}]

Seekp0(w)   == [w EXCEPT !.pos = 0, !.ops = Append(w.ops, "seekp(0)")]
SeekpEnd(w) == [w EXCEPT !.pos = Len(w.file), !.ops = Append(w.ops, "seekp(end)")]

writeHeader(w) == Put(w, "header", HeaderWords(w))

\* writeBox: xtal[6] = { box[0], 90, box[1], 90, 90, box[2] }, each double two words.
Double(v) == <<<<"f64lo", v>>, <<"f64hi", v>>>>
\* (mutant) the three lengths first, the three angles after them.
BoxWordsLengthsFirst(box) ==
  F77Line(Double(box[1]) \o Double(box[2]) \o Double(box[3])
          \o Double(UnitCellAngle) \o Double(UnitCellAngle) \o Double(UnitCellAngle))

BoxWords(box) ==
  F77Line(Double(box[1]) \o Double(UnitCellAngle) \o Double(box[2])
          \o Double(UnitCellAngle) \o Double(UnitCellAngle) \o Double(box[3]))
writeBox(w, box) == Put(w, "box", BoxWords(box))

\* One coordinate record: data[i] = grp[i]->coords()[axis] for i < _natoms.
CoordWords(g, n, axis) == F77Line([i \in 1..n |-> <<"f32", ToFloat(g.coords[i][axis])>>])

Raise(w, e) == [w EXCEPT !.err = e]

\* writeFrame from the growth test on: the frame has been accepted.
writeFrameBody(w0, g) ==
  LET w1 == IF w0.current >= w0.nsteps
            THEN LET a == Seekp0(w0)
                     b == [a EXCEPT !.nsteps = a.nsteps + 1,
                                    !.ops = Append(a.ops, "++_nsteps")]
                 IN  SeekpEnd(writeHeader(b))
            ELSE w0
      w2 == IF w1.has_box THEN writeBox(w1, g.box) ELSE w1
      w3 == Put(w2, "x", CoordWords(g, w2.natoms, 1))
      w4 == Put(w3, "y", CoordWords(g, w3.natoms, 2))
      w5 == Put(w4, "z", CoordWords(g, w4.natoms, 3))
  IN  [w5 EXCEPT !.current = w5.current + 1,
                 !.frames  = Append(w5.frames, g)]

\* (mutant) writeFrame without the test for a missing box.
writeFrameNoBoxTest(w, g) ==
  IF w.natoms = 0
  THEN writeFrameBody([w EXCEPT !.natoms = Size(g), !.has_box = g.periodic], g)
  ELSE IF Size(g) # w.natoms THEN Raise(w, "runtime_error: atom count mismatch")
  ELSE writeFrameBody(w, g)

\* DCDWriter::writeFrame(const AtomicGroup&)
writeFrame(w, g) ==
  IF w.natoms = 0
  THEN writeFrameBody([w EXCEPT !.natoms = Size(g), !.has_box = g.periodic], g)
  ELSE IF Size(g) # w.natoms THEN Raise(w, "runtime_error: atom count mismatch")
  ELSE IF w.has_box /\ ~g.periodic THEN Raise(w, "runtime_error: missing box")
  ELSE writeFrameBody(w, g)

\* DCDWriter::writeFrame(const std::vector<AtomicGroup>&): stops at the first throw.
RECURSIVE writeFrames(_, _)
writeFrames(w, gs) ==
  IF gs = <<>> THEN w
  ELSE LET w1 == writeFrame(w, Head(gs))
       IN  IF w1.err # "" THEN w1 ELSE writeFrames(w1, Tail(gs))

\* ----------------------------------------------------------- the writer
Self ==
  [natoms |-> _natoms, nsteps |-> _nsteps, timestep |-> _timestep,
   current |-> _current, has_box |-> _has_box, header_written |-> _header_written,
   titles |-> _titles, file |-> file, pos |-> pos,
   err |-> "", ops |-> <<>>, firstRecord |-> firstRecord, frames |-> frames,
   frameAt |-> frameAt, clobbered |-> clobbered]

Becomes(w, name, a) ==
  /\ _natoms' = w.natoms
  /\ _nsteps' = w.nsteps
  /\ _timestep' = w.timestep
  /\ _current' = w.current
  /\ _has_box' = w.has_box
  /\ _header_written' = w.header_written
  /\ _titles' = w.titles
  /\ file' = w.file
  /\ pos' = w.pos
  /\ err' = w.err
  /\ ops' = w.ops
  /\ firstRecord' = w.firstRecord
  /\ frames' = w.frames
  /\ frameAt' = w.frameAt
  /\ clobbered' = w.clobbered
  /\ op' = name
  /\ arg' = a

\* DCDWriter(const std::string&) and DCDWriter(std::iostream&), on an empty stream.
DcdInit ==
  /\ _natoms = 0
  /\ _nsteps = 0
  /\ _timestep = 1            \* 0.001, in units of 0.001
  /\ _current = 0
  /\ _has_box = FALSE
  /\ _header_written = FALSE
  /\ _titles = <<AutoTitle>>
  /\ file = <<>>
  /\ pos = 0
  /\ op = "DCDWriter"
  /\ arg = <<>>
  /\ err = ""
  /\ ops = <<>>
  /\ firstRecord = "none"
  /\ frames = <<>>
  /\ calls = 0
  /\ frameAt = {}
  /\ clobbered = FALSE

LogicError == "logic_error: Cannot set header after having written it"

\* setHeader(na, ns, ts, bf): int arguments stored in uint fields.
setHeader(w, na, ns, ts, bf) ==
  IF w.header_written THEN Raise(w, LogicError)
  ELSE [w EXCEPT !.natoms = na, !.nsteps = ns,
                 !.timestep = ts, !.has_box = bf]

setTitles(w, ts) ==
  IF w.header_written THEN Raise(w, LogicError) ELSE [w EXCEPT !.titles = ts]

addTitle(w, s) ==
  IF w.header_written THEN Raise(w, LogicError)
  ELSE [w EXCEPT !.titles = Append(w.titles, s)]

setTitle(w, s) ==
  IF w.header_written THEN Raise(w, LogicError)
  ELSE addTitle([w EXCEPT !.titles = <<>>], s)

Called == calls < MaxCalls /\ calls' = calls + 1 /\ UNCHANGED <<supVars, linVars, elseVars>>

SetHeader ==
  \E a \in HeaderArgs :
    /\ Becomes(setHeader(Self, a[1], a[2], a[3], a[4]), "setHeader", a)
    /\ Called

SetTitles ==
  /\ Becomes(setTitles(Self, <<>>), "setTitles", <<>>)
  /\ Called

SetTitle ==
  /\ Becomes(setTitle(Self, LongTitle), "setTitle", LongTitle)
  /\ Called

AddTitle ==
  /\ Becomes(addTitle(Self, LongTitle), "addTitle", LongTitle)
  /\ Called

WriteHeader ==
  /\ Becomes(writeHeader(Self), "writeHeader", <<>>)
  /\ Called

WriteFrame ==
  \E g \in Groups :
    /\ Becomes(writeFrame(Self, g), "writeFrame", g)
    /\ Called

WriteFrames ==
  \E gs \in VecInputs :
    /\ Becomes(writeFrames(Self, gs), "writeFrames", gs)
    /\ Called

\* ------------------------------------------------------- superposition
\* double arrays are sequences read with the C index (0-based).
At(A, k) == A[k + 1]

\* A sequence given by a rule, computed once, element by element.
Array(f) == f \o <<>>

\* The one element of a singleton: {e(x) : x \in {v}} binds v once.
Only(S) == CHOOSE x \in S : TRUE

\* GCoord arithmetic.
VAdd(a, b) == <<a[1] + b[1], a[2] + b[2], a[3] + b[3]>>
VNeg(a)    == <<-a[1], -a[2], -a[3]>>

\* Every coordinate of a group displaced by v.
Shifted(cs, v) == Array([i \in 1..Len(cs) |-> VAdd(cs[i], v)])

RECURSIVE VSum(_)
VSum(cs) == IF cs = <<>> THEN <<0, 0, 0>> ELSE VAdd(Head(cs), VSum(Tail(cs)))

\* AtomicGroup::centroid: the unweighted mean (the inputs keep it integral).
centroid(cs) ==
  Only({<<t[1] \div Len(cs), t[2] \div Len(cs), t[3] \div Len(cs)>> : t \in {VSum(cs)}})

\* GMatrix: 4x4, rows of columns; M[i+1][j+1] is M(i,j).  A new GMatrix is the identity.
Identity4 == <<<<1, 0, 0, 0>>, <<0, 1, 0, 0>>, <<0, 0, 1, 0>>, <<0, 0, 0, 1>>>>
MatMul4(A, B) ==
  Array([i \in 1..4 |-> Array([j \in 1..4 |->
     A[i][1] * B[1][j] + A[i][2] * B[2][j] + A[i][3] * B[3][j] + A[i][4] * B[4][j]])])
Translation(v) == <<<<1, 0, 0, v[1]>>, <<0, 1, 0, v[2]>>, <<0, 0, 1, v[3]>>, <<0, 0, 0, 1>>>>

\* XForm: identity() resets the current matrix; translate(v) and concat(M)
\* multiply the current matrix on the right.
XFormIdentity     == Identity4
XFormTranslate(Wc, v) == MatMul4(Wc, Translation(v))
XFormConcat(Wc, M)    == MatMul4(Wc, M)

\* GMatrix * GCoord: the homogeneous product, divided by w when w is not 1.
Product(M, p) ==
  Array([i \in 1..4 |-> M[i][1] * p[1] + M[i][2] * p[2] + M[i][3] * p[3] + M[i][4]])
Transform(M, p) ==
  Only({IF q[4] = 1 THEN <<q[1], q[2], q[3]>>
        ELSE <<q[1] \div q[4], q[2] \div q[4], q[3] \div q[4]>> : q \in {Product(M, p)}})

\* AtomicGroup::applyTransform: every coordinate, in place and in order.
applyTransform(cs, M) == Array([i \in 1..Len(cs) |-> Transform(M, cs[i])])

\* transformedCoordsAsArray(W): x0, y0, z0, x1, ... of the transformed coordinates.
Flatten(ts) == Array([k \in 1..(3 * Len(ts)) |-> ts[((k - 1) \div 3) + 1][((k - 1) % 3) + 1]])
transformedCoordsAsArray(cs, M) == Only({Flatten(ts) : ts \in {applyTransform(cs, M)}})

\* dgemm_ on column-major arrays of leading dimension 3: C = op(A) * op(B), with
\* C m x n and k the inner dimension (alpha = 1, beta = 0).
OpEntry(t, A, r, c) == IF t = "N" THEN At(A, r + 3 * c) ELSE At(A, c + 3 * r)
RECURSIVE Dot(_, _, _, _, _, _, _)
Dot(ta, tb, A, B, i, j, l) ==
  IF l < 0 THEN 0
  ELSE OpEntry(ta, A, i, l) * OpEntry(tb, B, l, j) + Dot(ta, tb, A, B, i, j, l - 1)
dgemm(ta, tb, m, n, k, A, B) ==
  Array([e \in 1..(m * n) |-> Dot(ta, tb, A, B, (e - 1) % m, (e - 1) \div m, k - 1)])

\* The expansion with one factor of its second term misplaced.
DetRMisplaced(R) ==
  At(R, 0) * At(R, 4) * At(R, 8) + At(R, 3) * At(R, 7) * At(R, 1)
    + At(R, 6) * At(R, 1) * At(R, 5) - At(R, 0) * At(R, 7) * At(R, 5)
    - At(R, 3) * At(R, 1) * At(R, 8) - At(R, 6) * At(R, 4) * At(R, 2)

\* The determinant as superposition expands it.
DetR(R) ==
  At(R, 0) * At(R, 4) * At(R, 8) + At(R, 3) * At(R, 7) * At(R, 2)
    + At(R, 6) * At(R, 1) * At(R, 5) - At(R, 0) * At(R, 7) * At(R, 5)
    - At(R, 3) * At(R, 1) * At(R, 8) - At(R, 6) * At(R, 4) * At(R, 2)

\* The orthogonal matrices with integer entries (column-major): column j holds
\* sg[j] in row pm[j].
Perms3 == {pm \in [1..3 -> 1..3] : pm[1] # pm[2] /\ pm[1] # pm[3] /\ pm[2] # pm[3]}
SignedPerm(pm, sg) == Array([e \in 1..9 |-> IF pm[((e - 1) \div 3) + 1] = ((e - 1) % 3) + 1
                                            THEN sg[((e - 1) \div 3) + 1] ELSE 0])
Orthogonal3 == {SignedPerm(pm, sg) : pm \in Perms3, sg \in [1..3 -> {-1, 1}]}
Transpose3(A) == Array([e \in 1..9 |-> At(A, ((e - 1) \div 3) + 3 * ((e - 1) % 3))])
Abs(x) == IF x < 0 THEN -x ELSE x

\* dgesvd_(jobu = 'A', jobvt = 'A'): any factors U, S, Vt with R = U diag(S) Vt,
\* U and Vt orthogonal, S >= 0 in descending order (info = 0); or a failure
\* (info < 0: an argument error; info > 0: no convergence).
\* R^t U = V diag(S) fixes S and, where S is not zero, the columns of V.
ColumnSums(B) ==
  Array([j \in 1..3 |-> Abs(At(B, 3 * (j - 1))) + Abs(At(B, 3 * (j - 1) + 1))
                          + Abs(At(B, 3 * (j - 1) + 2))])
SvdFactors(R) ==
  UNION {UNION {UNION {IF S[1] >= S[2] /\ S[2] >= S[3]
                       THEN {[info |-> 0, U |-> U, S |-> S, Vt |-> Transpose3(V)] :
                               V \in {V \in Orthogonal3 :
                                        \A e \in 1..9 : V[e] * S[((e - 1) \div 3) + 1] = B[e]}}
                       ELSE {} : S \in {ColumnSums(B)}}
                : B \in {dgemm("T", "N", 3, 3, 3, R, U)}}
         : U \in Orthogonal3}
SvdFailures == {[info |-> i, U |-> <<>>, S |-> <<>>, Vt |-> <<>>] : i \in {-4, 1}}
dgesvd(R) == SvdFactors(R) \cup SvdFailures

\* Adjust U (if necessary): the third column negated when det < 0.
AdjustU(U, det) ==
  IF det < 0 THEN Array([e \in 1..9 |-> IF e >= 7 THEN -U[e] ELSE U[e]]) ELSE U

\* A copy of M into Z without the transposition.
RotationZUntransposed(M) ==
  Array([i \in 1..4 |-> Array([j \in 1..4 |->
     IF i <= 3 /\ j <= 3 THEN At(M, (i - 1) + 3 * (j - 1)) ELSE Identity4[i][j]])])

\* Z(i,j) = M[i*3+j] for i, j < 3, in a new (identity) GMatrix.
RotationZ(M) ==
  Array([i \in 1..4 |-> Array([j \in 1..4 |->
     IF i <= 3 /\ j <= 3 THEN At(M, (i - 1) * 3 + (j - 1)) ELSE Identity4[i][j]])])

\* The composition with the two translations exchanged.
ComposeWReversed(yc, Z, xc) ==
  XFormTranslate(XFormConcat(XFormTranslate(XFormIdentity, VNeg(xc)), Z), yc)

\* W.identity(); W.translate(yc); W.concat(Z); W.translate(-xc); W.current()
ComposeW(yc, Z, xc) ==
  XFormTranslate(XFormConcat(XFormTranslate(XFormIdentity, yc), Z), VNeg(xc))

\* The first half of superposition: both centroids, and the cross-covariance
\* R = X Y^t of the two centred groups, over the n = size() atoms of the
\* moving group (of a longer reference, the first n).
CentredArray(a) == transformedCoordsAsArray(a, XFormTranslate(XFormIdentity, VNeg(centroid(a))))
Correlation(a, g) == dgemm("N", "T", 3, 3, Len(a), CentredArray(a), CentredArray(g))
Centred(a, g) ==
  [fault |-> FALSE, xc |-> centroid(a), yc |-> centroid(g), R |-> Correlation(a, g)]

\* With a reference of fewer than n atoms dgemm_ reads past the end of Y: the
\* read faults, or it yields whatever lies there.
Garbage == {<<0, 0, 0>>, <<1, 0, 0>>, <<0, -2, 0>>}
Faulted == [fault |-> TRUE, xc |-> <<>>, yc |-> <<>>, R |-> <<>>]
Overread(a, g) ==
  {[fault |-> FALSE, xc |-> centroid(a), yc |-> centroid(g),
    R |-> dgemm("N", "T", 3, 3, Len(a), CentredArray(a), CentredArray(g) \o Flatten(pad))] :
      pad \in [1..(Len(a) - Len(g)) -> Garbage]}
Reads(a, g) ==
  IF Len(g) >= Len(a) THEN {Centred(a, g)} ELSE {Faulted} \cup Overread(a, g)

\* What the solver hands back (after a fault it is never called).
Solver(c) ==
  IF c.fault THEN {[info |-> 0, U |-> <<>>, S |-> <<>>, Vt |-> <<>>]} ELSE dgesvd(c.R)

\* AtomicGroup::superposition from there on, given what dgesvd_ hands back.
superposition(c, o) ==
  IF c.fault
  THEN [err |-> <<"SIGSEGV">>, ret |-> <<>>, M |-> <<>>]
  ELSE IF o.info # 0
  THEN [err |-> <<"NumericalError", o.info>>, ret |-> <<>>, M |-> <<>>]
  ELSE Only({[err |-> <<>>, ret |-> ComposeW(c.yc, RotationZ(M), c.xc), M |-> M] :
               M \in {dgemm("N", "N", 3, 3, 3, AdjustU(o.U, DetR(c.R)), o.Vt)}})

\* An alignOnto that returns the transform without applying it.
alignOntoUnapplied(a, c, o) ==
  Only({[err |-> r.err, ret |-> r.ret, M |-> r.M, atoms |-> a] : r \in {superposition(c, o)}})

\* AtomicGroup::alignOnto: the transform, and the moving coordinates after it.
alignOnto(a, c, o) ==
  Only({IF r.err # <<>> THEN [err |-> r.err, ret |-> <<>>, M |-> <<>>, atoms |-> a]
        ELSE [err |-> <<>>, ret |-> r.ret, M |-> r.M, atoms |-> applyTransform(a, r.ret)] :
          r \in {superposition(c, o)}})

\* ---- momentsOfInertia and principalAxes.
RECURSIVE Sigma(_, _)
Sigma(f, n) == IF n = 0 THEN 0 ELSE f[n] + Sigma(f, n - 1)

\* AtomicGroup::centerOfMass: the mass-weighted mean (the inputs keep it integral).
centerOfMass(cs, ms) ==
  Only({<<Sigma([i \in 1..Len(cs) |-> ms[i] * cs[i][1]], Len(cs)) \div mt,
          Sigma([i \in 1..Len(cs) |-> ms[i] * cs[i][2]], Len(cs)) \div mt,
          Sigma([i \in 1..Len(cs) |-> ms[i] * cs[i][3]], Len(cs)) \div mt>> :
            mt \in {Sigma(ms, Len(ms))}})

\* The loop of momentsOfInertia: the six sums I(0,0), I(1,0), I(2,0), I(1,1),
\* I(2,1), I(2,2) over u = coords - c.
InertiaSums(us, ms) ==
  [s00 |-> Sigma([i \in 1..Len(us) |-> ms[i] * (us[i][2] * us[i][2] + us[i][3] * us[i][3])], Len(us)),
   s10 |-> Sigma([i \in 1..Len(us) |-> ms[i] * us[i][1] * us[i][2]], Len(us)),
   s20 |-> Sigma([i \in 1..Len(us) |-> ms[i] * us[i][1] * us[i][3]], Len(us)),
   s11 |-> Sigma([i \in 1..Len(us) |-> ms[i] * (us[i][1] * us[i][1] + us[i][3] * us[i][3])], Len(us)),
   s21 |-> Sigma([i \in 1..Len(us) |-> ms[i] * us[i][2] * us[i][3]], Len(us)),
   s22 |-> Sigma([i \in 1..Len(us) |-> ms[i] * (us[i][1] * us[i][1] + us[i][2] * us[i][2])], Len(us))]

\* The mirroring with the negation left out.
MirroredUnnegated(t) ==
  <<t.s00, t.s10, t.s20,
    t.s10, t.s11, t.s21,
    t.s20, t.s21, t.s22>>

\* I(1,0) = I(0,1) = -I(1,0); I(2,0) = I(0,2) = -I(2,0); I(2,1) = I(1,2) = -I(2,1):
\* the column-major array I.get().
Mirrored(t) ==
  <<t.s00, -t.s10, -t.s20,
    -t.s10, t.s11, -t.s21,
    -t.s20, -t.s21, t.s22>>

InertiaTensor(cs, ms) ==
  Only({Mirrored(InertiaSums(Shifted(cs, VNeg(c)), ms)) : c \in {centerOfMass(cs, ms)}})

\* principalAxes up to dsyev_: the mean subtracted from coordsAsArray(), then
\* C = A * A'.
ScatterMatrix(cs) ==
  Only({dgemm("N", "T", 3, 3, Len(cs), A, A) :
          A \in {Flatten(Shifted(cs, VNeg(centroid(cs))))}})

\* dsyev_(jobz = 'V', uplo = 'U'): only the upper triangle of the array is read.
UpperSymmetric(A) ==
  Array([e \in 1..9 |->
     IF (e - 1) % 3 <= (e - 1) \div 3 THEN A[e] ELSE At(A, ((e - 1) \div 3) + 3 * ((e - 1) % 3))])

\* On success the array holds orthonormal eigenvectors in its columns and W the
\* eigenvalues in ascending order: A V = V diag(W).  (Factors with integer
\* entries: all there are for a diagonal matrix with distinct eigenvalues.)
EigFactors(A) ==
  UNION {UNION {UNION {IF /\ W[1] <= W[2] /\ W[2] <= W[3]
                          /\ \A e \in 1..9 : B[e] = W[((e - 1) \div 3) + 1] * V[e]
                       THEN {[info |-> 0, W |-> W, V |-> V]} ELSE {} :
                         W \in {Array([k \in 1..3 |->
                                   V[3 * k - 2] * B[3 * k - 2] + V[3 * k - 1] * B[3 * k - 1]
                                     + V[3 * k] * B[3 * k]])}}
                : B \in {dgemm("N", "N", 3, 3, 3, UpperSymmetric(A), V)}}
         : V \in Orthogonal3}
EigFailures == {[info |-> i, W |-> <<>>, V |-> <<>>] : i \in {-4, 2}}
dsyev(A) == EigFactors(A) \cup EigFailures

\* The results in the solver's own (ascending) order.
EigenResultsAscending(o, n) ==
  <<<<At(o.V, 0), At(o.V, 1), At(o.V, 2)>>,
    <<At(o.V, 3), At(o.V, 4), At(o.V, 5)>>,
    <<At(o.V, 6), At(o.V, 7), At(o.V, 8)>>,
    <<At(o.W, 0) \div n, At(o.W, 1) \div n, At(o.W, 2) \div n>>>>

\* results[i] = column 2 - i of the array for i < 3, results[3] = (W[2], W[1], W[0]) / size().
EigenResults(o, n) ==
  <<<<At(o.V, 6), At(o.V, 7), At(o.V, 8)>>,
    <<At(o.V, 3), At(o.V, 4), At(o.V, 5)>>,
    <<At(o.V, 0), At(o.V, 1), At(o.V, 2)>>,
    <<At(o.W, 2) \div n, At(o.W, 1) \div n, At(o.W, 0) \div n>>>>

\* A decomposition that throws on an argument error only.
eigenDecompUnconverged(o, n) ==
  IF o.info < 0 THEN [err |-> <<"NumericalError", o.info>>, ret |-> <<>>]
  ELSE IF o.info > 0 THEN [err |-> <<>>, ret |-> <<>>]
  ELSE [err |-> <<>>, ret |-> EigenResults(o, n)]

\* The rest of momentsOfInertia and of principalAxes, given what dsyev_ hands back.
eigenDecomp(o, n) ==
  IF o.info # 0 THEN [err |-> <<"NumericalError", o.info>>, ret |-> <<>>]
  ELSE [err |-> <<>>, ret |-> EigenResults(o, n)]

\* ---- inputs: two reference shapes (centred, with diagonal covariance), the
\* moving group an orthogonal image of the reference, displaced.
Solid     == <<<<1, 2, 3>>, <<1, -2, -3>>, <<-1, 2, -3>>, <<-1, -2, 3>>>>   \* singular values 36 > 16 > 4
Coplanar  == <<<<1, 2, 0>>, <<1, -2, 0>>, <<-1, 2, 0>>, <<-1, -2, 0>>>>     \* det(R) = 0
Shapes    == {Solid, Coplanar}
RefShift  == <<3, -1, 2>>
Rotated(cs, Q) ==
  Array([i \in 1..Len(cs) |->
     <<At(Q, 0) * cs[i][1] + At(Q, 3) * cs[i][2] + At(Q, 6) * cs[i][3],
       At(Q, 1) * cs[i][1] + At(Q, 4) * cs[i][2] + At(Q, 7) * cs[i][3],
       At(Q, 2) * cs[i][1] + At(Q, 5) * cs[i][2] + At(Q, 8) * cs[i][3]>>])

\* The poses of the moving group: eight rotations and eight reflections.
Poses == {SignedPerm(pm, sg) : pm \in {<<1, 2, 3>>, <<2, 3, 1>>}, sg \in [1..3 -> {-1, 1}]}

SupIdle ==
  /\ atoms = <<>> /\ grp = <<>> /\ ret = <<>>
  /\ sop = "none" /\ serr = <<>> /\ rot = <<>> /\ info = 0

SupInit ==
  /\ \E sh \in Shapes, Q \in Poses, k \in 0..MaxShift :
       /\ grp = Shifted(sh, RefShift)
       /\ atoms = Shifted(Rotated(sh, Q), <<k, 2 * k, -k>>)
  /\ ret = <<>>
  /\ sop = "none"
  /\ serr = <<>>
  /\ rot = <<>>
  /\ info = 0

Superposition ==
  \E c \in Reads(atoms, grp) :
    \E o \in Solver(c) :
      \E r \in {superposition(c, o)} :
        /\ ret' = r.ret
        /\ serr' = r.err
        /\ sop' = "superposition"
        /\ rot' = r.M
        /\ info' = o.info
        /\ tensor' = <<>>
        /\ UNCHANGED <<atoms, grp, dcdVars, elseVars, mass, Rin, detOut>>

AlignOnto ==
  \E c \in Reads(atoms, grp) :
    \E o \in Solver(c) :
      \E r \in {alignOnto(atoms, c, o)} :
        /\ ret' = r.ret
        /\ serr' = r.err
        /\ atoms' = r.atoms
        /\ sop' = "alignOnto"
        /\ rot' = r.M
        /\ info' = o.info
        /\ tensor' = <<>>
        /\ UNCHANGED <<grp, dcdVars, elseVars, mass, Rin, detOut>>

\* Three of the poses: the identity, a rotation and a reflection.
EigPoses == {SignedPerm(<<1, 2, 3>>, <<1, 1, 1>>), SignedPerm(<<2, 3, 1>>, <<1, -1, 1>>),
             SignedPerm(<<1, 2, 3>>, <<1, 1, -1>>)}

\* Groups of different sizes: a reference of two atoms more (their sum zero),
\* and one of two atoms fewer.
Extra == <<<<5, 5, 5>>, <<-5, -5, -5>>>>
MisInit ==
  /\ \E Q \in EigPoses :
       \/ \E sh \in Shapes :
            /\ grp = Shifted(sh \o Extra, RefShift)
            /\ atoms = Shifted(Rotated(sh, Q), <<1, 2, -1>>)
       \/ /\ grp = Shifted(SubSeq(Coplanar, 1, 2), RefShift)
          /\ atoms = Shifted(Rotated(Coplanar, Q), <<1, 2, -1>>)
  /\ ret = <<>> /\ sop = "none" /\ serr = <<>> /\ rot = <<>> /\ info = 0

\* The masses of a group: every atom the same mass.
Masses == {1, 2}
PairLight == <<<<0, 0, 0>>, <<2, 4, 6>>>>
PairHeavy == <<<<0, 0, 0>>, <<4, 4, 8>>>>

\* The groups momentsOfInertia and principalAxes are called on: the shapes of
\* superposition, displaced and with equal masses, and two pairs off the
\* axes, the second with masses 1 and 3.
EigInit ==
  /\ \/ /\ \E sh \in Shapes, Q \in EigPoses :
             /\ grp = Shifted(sh, RefShift)
             /\ atoms = Shifted(Rotated(sh, Q), <<1, 2, -1>>)
        /\ \E m \in Masses : mass = [i \in 1..Len(atoms) |-> m]
        /\ ret = <<>> /\ sop = "none" /\ serr = <<>> /\ rot = <<>> /\ info = 0
     \/ /\ atoms = PairLight /\ grp = Shifted(PairLight, RefShift)
        /\ mass \in {<<1, 1>>, <<2, 2>>}
        /\ ret = <<>> /\ sop = "none" /\ serr = <<>> /\ rot = <<>> /\ info = 0
     \/ /\ atoms = PairHeavy /\ grp = Shifted(PairHeavy, RefShift)
        /\ mass = <<1, 3>>
        /\ ret = <<>> /\ sop = "none" /\ serr = <<>> /\ rot = <<>> /\ info = 0
  /\ tensor = <<>> /\ Rin = <<>> /\ detOut = <<>>

MomentsOfInertia ==
  \E t \in {InertiaTensor(atoms, mass)} :
    \E o \in dsyev(t) :
      \E r \in {eigenDecomp(o, Len(atoms))} :
        /\ ret' = r.ret
        /\ serr' = r.err
        /\ sop' = "momentsOfInertia"
        /\ tensor' = t
        /\ rot' = <<>>
        /\ info' = o.info
        /\ UNCHANGED <<atoms, grp, mass, Rin, detOut, dcdVars, elseVars>>

PrincipalAxes ==
  \E t \in {ScatterMatrix(atoms)} :
    \E o \in dsyev(t) :
      \E r \in {eigenDecomp(o, Len(atoms))} :
        /\ ret' = r.ret
        /\ serr' = r.err
        /\ sop' = "principalAxes"
        /\ tensor' = t
        /\ rot' = <<>>
        /\ info' = o.info
        /\ UNCHANGED <<atoms, grp, mass, Rin, detOut, dcdVars, elseVars>>

\* ---- the determinant of superposition, on a matrix of its own.
DetEntries == {-1, 0, 2}
LinIdle == mass = <<>> /\ tensor = <<>> /\ Rin = <<>> /\ detOut = <<>>

DetInit ==
  /\ Rin \in [1..9 -> DetEntries]
  /\ detOut = <<>>
  /\ mass = <<>> /\ tensor = <<>>

\* double det = R[0]*R[4]*R[8] + ... ;
Determinant ==
  /\ detOut' = <<DetR(Rin)>>
  /\ UNCHANGED <<Rin, mass, tensor, dcdVars, elseVars, supVars>>

\* ------------------------------------------------------------- PDB
\* PDB(): _show_charge(false), _auto_ter(true), _has_cryst(false), strictness_policy(false)
PdbDefault ==
  [_show_charge |-> FALSE, _auto_ter |-> TRUE, _has_cryst |-> FALSE, strictness_policy |-> FALSE]

\* PDB(const AtomicGroup&): _show_charge(false), _auto_ter(true), _has_cryst(false);
\* strictness_policy is left uninitialized, and reads as either value.
PdbUpcast ==
  {[_show_charge |-> FALSE, _auto_ter |-> TRUE, _has_cryst |-> FALSE, strictness_policy |-> b] :
     b \in BOOLEAN}

\* PDB(fname), PDB(ifs): the defaults, then read(), which may find a CRYST1 record.
PdbRead ==
  {[PdbDefault EXCEPT !._has_cryst = b] : b \in BOOLEAN}

\* copy(): an upcast of the group's copy, then _show_charge, _auto_ter and
\* _has_cryst (and the remarks and the cell) assigned from the original.
PdbCopied(orig) ==
  {[p EXCEPT !._show_charge = orig._show_charge, !._auto_ter = orig._auto_ter,
             !._has_cryst = orig._has_cryst] : p \in PdbUpcast}

PdbIdle ==
  /\ pdb = <<>> /\ pdbFrom = <<>> /\ pdbop = "none" /\ perr = "" /\ strictCalled = FALSE

PdbStep(name, p, from, sc) ==
  /\ pdb' = p /\ pdbFrom' = from /\ pdbop' = name /\ strictCalled' = sc
  /\ UNCHANGED <<dcdVars, supVars, linVars, toolVars>>

PdbConstruct ==
  /\ PdbStep("PDB()", PdbDefault, <<>>, FALSE)
  /\ perr' = ""

\* PDB(fname): throws when the file cannot be opened, and then there is no new object.
PdbFromFile ==
  \E opened \in BOOLEAN :
    IF opened
    THEN /\ \E p \in PdbRead : PdbStep("PDB(fname)", p, <<>>, FALSE)
         /\ perr' = ""
    ELSE /\ PdbStep("PDB(fname)", pdb, pdbFrom, strictCalled)
         /\ perr' = "runtime_error: cannot open"

PdbFromStream ==
  /\ \E p \in PdbRead : PdbStep("PDB(ifs)", p, <<>>, FALSE)
  /\ perr' = ""

PdbFromAtomicGroup ==
  /\ \E p \in PdbUpcast : PdbStep("fromAtomicGroup", p, <<>>, FALSE)
  /\ perr' = ""

PdbCopy ==
  /\ pdb # <<>>
  /\ \E p \in PdbCopied(pdb) : PdbStep("copy", p, pdb, FALSE)
  /\ perr' = ""

\* clone(): new PDB(*this), the copy constructor: every field of the original.
PdbClone ==
  /\ pdb # <<>>
  /\ PdbStep("clone", pdb, pdb, strictCalled)
  /\ perr' = ""

PdbStrict ==
  /\ pdb # <<>>
  /\ \E b \in BOOLEAN :
       PdbStep("strict", [pdb EXCEPT !.strictness_policy = b], pdbFrom, strictCalled \/ b)
  /\ perr' = ""

PdbShowCharge ==
  /\ pdb # <<>>
  /\ \E b \in BOOLEAN :
       PdbStep("showCharge", [pdb EXCEPT !._show_charge = b], pdbFrom, strictCalled)
  /\ perr' = ""

PdbAutoTerminate ==
  /\ pdb # <<>>
  /\ \E b \in BOOLEAN :
       PdbStep("autoTerminate", [pdb EXCEPT !._auto_ter = b], pdbFrom, strictCalled)
  /\ perr' = ""

\* ------------------------------------------------- convergence tools
\* iterativeAlignment(ensemble): align every member onto the reference, average,
\* take the RMSD of the new average to the old, replace the reference, stop
\* when the RMSD is below the threshold or the cap is reached.
IterCap == 3

\* One more iteration than the cap allows.
iterateOverCap(it, below) ==
  [state |-> IF below THEN "converged"
             ELSE IF it.iters + 1 > IterCap THEN "exhausted" ELSE "iterating",
   iters |-> it.iters + 1,
   rmsd  |-> IF below THEN "below" ELSE "above"]

\* One iteration, given whether its RMSD fell below the threshold.
iterate(it, below) ==
  [state |-> IF below THEN "converged"
             ELSE IF it.iters + 1 >= IterCap THEN "exhausted" ELSE "iterating",
   iters |-> it.iters + 1,
   rmsd  |-> IF below THEN "below" ELSE "above"]

IterIdle == istate = "idle" /\ iters = 0 /\ irmsd = "none" /\ iret = "none"

\* The call: state iterating, no iteration done.
IterCalled(back) ==
  /\ istate' = "iterating" /\ iters' = 0 /\ irmsd' = "none" /\ iret' = back
  /\ tpc' = "iterativeAlignment"

IterStep ==
  /\ tpc = "iterativeAlignment"
  /\ istate = "iterating"
  /\ \E below \in BOOLEAN :
       \E it \in {iterate([iters |-> iters], below)} :
         /\ istate' = it.state /\ iters' = it.iters /\ irmsd' = it.rmsd
         /\ tpc' = IF it.state = "iterating" THEN tpc ELSE iret
  /\ UNCHANGED <<tool, nframes, blocks, optflag, bidx, preceding, rows, iret,
                 navg, tj, ti, recs, dcdVars, supVars, linVars, pdbVars>>

\* ---- avgconv.  Structures are named, not computed: the average of the first
\* b frames, as averaged or as aligned onto another structure.
Average(b) == [frames |-> b, onto |-> <<>>]
Aligned(a, p) == [frames |-> a.frames, onto |-> <<p.frames>>]
Rmsd(p, a) == [from |-> p, to |-> a]

\* Reading ensemble[i] for i >= ensemble.size() yields anything: here, a
\* structure of no frames.
GarbageStructure == [frames |-> -1, onto |-> <<>>]

ToolOther ==
  /\ navg = 0 /\ tj = 0 /\ ti = 0 /\ recs = <<>>

ToolIdle ==
  /\ tool = "none" /\ tpc = "none" /\ nframes = 0 /\ blocks = <<>> /\ optflag = FALSE
  /\ bidx = 0 /\ preceding = <<>> /\ rows = <<>>
  /\ IterIdle /\ ToolOther

AvgKeep == UNCHANGED <<tool, nframes, optflag, navg, tj, ti, recs,
                       dcdVars, supVars, linVars, pdbVars>>

\* main up to the block sizes: argc == 4 takes nframes / 100 as step (and exits
\* if that is 0) and every multiple of it below nframes; otherwise the list
\* is parsed from the command line.
AutoBlocks(n) ==
  IF n \div 100 = 0 THEN <<>>
  ELSE [k \in 1..((n - 1) \div (n \div 100)) |-> k * (n \div 100)]

AvgBlocks ==
  /\ tool = "avgconv" /\ tpc = "start"
  /\ IF blocks = <<>>
     THEN IF nframes \div 100 = 0
          THEN tpc' = "exit(-1)" /\ blocks' = blocks
          ELSE tpc' = "align" /\ blocks' = AutoBlocks(nframes)
     ELSE tpc' = "align" /\ blocks' = blocks
  /\ UNCHANGED <<bidx, preceding, rows, istate, iters, irmsd, iret>>
  /\ AvgKeep

\* if (!locally_optimal) iterativeAlignment(ensemble);
AvgAlign ==
  /\ tool = "avgconv" /\ tpc = "align"
  /\ IF ~optflag THEN IterCalled("calcAverage")
     ELSE tpc' = "calcAverage" /\ UNCHANGED <<istate, iters, irmsd, iret>>
  /\ UNCHANGED <<blocks, bidx, preceding, rows>>
  /\ AvgKeep

\* calcAverage(ensemble, size) up to averageStructure: the first size members
\* are copied (a size beyond the ensemble reads past its end: a fault, or
\* garbage), and iteratively aligned if locally_optimal.
AvgCalc ==
  /\ tool = "avgconv" /\ tpc = "calcAverage"
  /\ bidx < Len(blocks)
  /\ IF blocks[bidx + 1] > nframes
     THEN /\ tpc' \in {"fault", "garbage"}
          /\ UNCHANGED <<istate, iters, irmsd, iret>>
     ELSE IF optflag THEN IterCalled("averageStructure")
     ELSE tpc' = "averageStructure" /\ UNCHANGED <<istate, iters, irmsd, iret>>
  /\ UNCHANGED <<blocks, bidx, preceding, rows>>
  /\ AvgKeep

\* AtomicGroup preceding = calcAverage(ensemble, blocks[0]);
AvgFirst ==
  /\ tool = "avgconv" /\ tpc \in {"averageStructure", "garbage"}
  /\ bidx = 0
  /\ preceding' = IF tpc = "garbage" THEN GarbageStructure ELSE Average(blocks[1])
  /\ bidx' = 1
  /\ tpc' = IF 1 < Len(blocks) THEN "calcAverage" ELSE "done"
  /\ UNCHANGED <<blocks, rows, istate, iters, irmsd, iret>>
  /\ AvgKeep

\* The body of the loop: avg.alignOnto(preceding) (which may throw), the row,
\* preceding = avg.
AvgRow ==
  /\ tool = "avgconv" /\ tpc \in {"averageStructure", "garbage"}
  /\ bidx > 0
  /\ \E thrown \in BOOLEAN :
       IF thrown
       THEN tpc' = "NumericalError" /\ UNCHANGED <<bidx, preceding, rows>>
       ELSE \E avg \in {Aligned(IF tpc = "garbage" THEN GarbageStructure
                                  ELSE Average(blocks[bidx + 1]), preceding)} :
              /\ rows' = Append(rows, <<blocks[bidx + 1], Rmsd(preceding, avg)>>)
              /\ preceding' = avg
              /\ bidx' = bidx + 1
              /\ tpc' = IF bidx + 1 < Len(blocks) THEN "calcAverage" ELSE "done"
  /\ UNCHANGED <<blocks, istate, iters, irmsd, iret>>
  /\ AvgKeep

\* ---- block_avgconv.  uint and size_t arithmetic wraps at their widths.
UIntMod == 2 ^ UIntBits
SizeMod == 2 ^ SizeBits

\* The vector of averages holds no more than this; a push_back beyond it
\* throws std::bad_alloc.
MaxAverages == MaxFrames + 1

BlkKeep == UNCHANGED <<tool, nframes, blocks, optflag, preceding,
                       dcdVars, supVars, linVars, pdbVars>>

\* if (do_align) iterativeAlignment(ensemble);
BlkAlign ==
  /\ tool = "block_avgconv" /\ tpc = "align"
  /\ IF optflag THEN IterCalled("block")
     ELSE tpc' = "block" /\ UNCHANGED <<istate, iters, irmsd, iret>>
  /\ UNCHANGED <<bidx, rows, navg, tj, ti, recs>>
  /\ BlkKeep

\* for (uint block = 0; block < sizes.size(); ++block): the test, and the
\* fresh averages of the body.
BlkBlock ==
  /\ tool = "block_avgconv" /\ tpc = "block"
  /\ tpc' = IF bidx < Len(blocks) THEN "averages" ELSE "done"
  /\ navg' = 0 /\ ti' = 0 /\ tj' = 0 /\ recs' = <<>>
  /\ UNCHANGED <<bidx, rows, istate, iters, irmsd, iret>>
  /\ BlkKeep

\* for (uint i=0; i<ensemble.size() - blocksize; i += blocksize): one test
\* and, if it passes, one average pushed.  An index at or beyond
\* ensemble.size() reads past the end: a fault, or garbage in the average.
BlkAverage ==
  /\ tool = "block_avgconv" /\ tpc = "averages"
  /\ \E blocksize \in {blocks[bidx + 1]} :
       IF ti < (nframes - blocksize) % SizeMod
       THEN /\ \/ ti + blocksize > nframes /\ tpc' = "fault"
               \/ navg >= MaxAverages /\ tpc' = "bad_alloc"
               \/ navg < MaxAverages /\ tpc' = tpc
            /\ navg' = IF tpc' = tpc THEN navg + 1 ELSE navg
            /\ ti' = IF tpc' = tpc THEN (ti + blocksize) % UIntMod ELSE ti
            /\ tj' = tj
       ELSE tpc' = "pairs" /\ tj' = 0 /\ UNCHANGED <<navg, ti>>
  /\ UNCHANGED <<bidx, rows, recs, istate, iters, irmsd, iret>>
  /\ BlkKeep

\* for (uint j=0; j<averages.size() - 1; ++j): the test, and i = j+1.
BlkOuter ==
  /\ tool = "block_avgconv" /\ tpc = "pairs"
  /\ IF tj < (navg - 1) % SizeMod
     THEN tpc' = "pair" /\ ti' = (tj + 1) % UIntMod
     ELSE tpc' = "print" /\ ti' = ti
  /\ UNCHANGED <<bidx, rows, navg, tj, recs, istate, iters, irmsd, iret>>
  /\ BlkKeep

\* for (uint i=j+1; i<averages.size(); ++i): the test and the body
\* (left.alignOnto(right), which may throw, and the push onto rmsds), or ++j.
BlkPair ==
  /\ tool = "block_avgconv" /\ tpc = "pair"
  /\ IF ti < navg
     THEN \E thrown \in BOOLEAN :
            IF thrown
            THEN tpc' = "NumericalError" /\ UNCHANGED <<tj, ti, recs>>
            ELSE /\ recs' = Append(recs, <<tj, ti>>)
                 /\ ti' = (ti + 1) % UIntMod
                 /\ UNCHANGED <<tpc, tj>>
     ELSE tpc' = "pairs" /\ tj' = (tj + 1) % UIntMod /\ UNCHANGED <<ti, recs>>
  /\ UNCHANGED <<bidx, rows, navg, istate, iters, irmsd, iret>>
  /\ BlkKeep

\* The row: blocksize, (the statistics of) rmsds, n.
BlkPrint ==
  /\ tool = "block_avgconv" /\ tpc = "print"
  /\ rows' = Append(rows, <<blocks[bidx + 1], navg, recs>>)
  /\ bidx' = bidx + 1
  /\ tpc' = "block"
  /\ UNCHANGED <<navg, tj, ti, recs, istate, iters, irmsd, iret>>
  /\ BlkKeep

ElseIdle == PdbIdle /\ ToolIdle

\* ------------------------------------------------------ specifications
\* A DCDWriter on an empty stream, and the calls made on it.
Init ==
  /\ DcdInit
  /\ ElseIdle
  /\ SupIdle
  /\ LinIdle

Next ==
  \/ SetHeader
  \/ SetTitles
  \/ SetTitle
  \/ AddTitle
  \/ WriteHeader
  \/ WriteFrame
  \/ WriteFrames

Spec == Init /\ [][Next]_vars

\* The AtomicGroup operations, on a pair of groups.
InitSup ==
  /\ DcdInit
  /\ ElseIdle
  /\ SupInit
  /\ LinIdle

NextSup ==
  \/ Superposition
  \/ AlignOnto

SpecSup == InitSup /\ [][NextSup]_vars

\* superposition and alignOnto on groups of different sizes.
InitMis ==
  /\ DcdInit
  /\ ElseIdle
  /\ MisInit
  /\ LinIdle

SpecMis == InitMis /\ [][NextSup]_vars

\* All four AtomicGroup operations, on groups with masses.
InitEig ==
  /\ DcdInit
  /\ ElseIdle
  /\ EigInit

NextEig ==
  \/ MomentsOfInertia
  \/ PrincipalAxes
  \/ Superposition
  \/ AlignOnto

SpecEig == InitEig /\ [][NextEig]_vars

\* PDB objects: made, copied and set.
InitPdb ==
  /\ DcdInit
  /\ SupIdle
  /\ LinIdle
  /\ PdbIdle
  /\ ToolIdle

NextPdb ==
  \/ PdbConstruct
  \/ PdbFromFile
  \/ PdbFromStream
  \/ PdbFromAtomicGroup
  \/ PdbCopy
  \/ PdbClone
  \/ PdbStrict
  \/ PdbShowCharge
  \/ PdbAutoTerminate

SpecPdb == InitPdb /\ [][NextPdb]_vars

\* avgconv, on ensembles of MaxFrames frames at most (and of 200, for the
\* automatic block sizes), with every list of MaxBlocks block sizes at most.
MaxBlocks == 2

BlockLists ==
  UNION {[1..k -> 1..(MaxFrames + 1)] : k \in 1..MaxBlocks}

AvgconvInit ==
  /\ tool = "avgconv" /\ tpc = "start"
  /\ \/ nframes \in 1..MaxFrames /\ blocks \in BlockLists \cup {<<>>}
     \/ nframes = 200 /\ blocks = <<>>
  /\ optflag \in BOOLEAN
  /\ bidx = 0 /\ preceding = <<>> /\ rows = <<>>
  /\ IterIdle /\ ToolOther

InitAvgconv ==
  /\ DcdInit
  /\ SupIdle
  /\ LinIdle
  /\ PdbIdle
  /\ AvgconvInit

NextAvgconv ==
  \/ AvgBlocks
  \/ AvgAlign
  \/ IterStep
  \/ AvgCalc
  \/ AvgFirst
  \/ AvgRow

SpecAvgconv == InitAvgconv /\ [][NextAvgconv]_vars

\* The same, with every step that can be taken taken in the end.
SpecAvgconvFair == SpecAvgconv /\ WF_vars(NextAvgconv)

\* block_avgconv, on the same ensembles, with a list of block sizes.
BlockInit ==
  /\ tool = "block_avgconv" /\ tpc = "align"
  /\ nframes \in 1..MaxFrames /\ blocks \in BlockLists
  /\ optflag \in BOOLEAN
  /\ bidx = 0 /\ preceding = <<>> /\ rows = <<>>
  /\ IterIdle /\ ToolOther

InitBlock ==
  /\ DcdInit
  /\ SupIdle
  /\ LinIdle
  /\ PdbIdle
  /\ BlockInit

NextBlock ==
  \/ BlkAlign
  \/ IterStep
  \/ BlkBlock
  \/ BlkAverage
  \/ BlkOuter
  \/ BlkPair
  \/ BlkPrint

\* Every step that can be taken is taken in the end.
SpecBlock == InitBlock /\ [][NextBlock]_vars /\ WF_vars(NextBlock)

\* The determinant, on every matrix with entries in DetEntries.
InitDet ==
  /\ DcdInit
  /\ ElseIdle
  /\ SupIdle
  /\ DetInit

NextDet == Determinant

SpecDet == InitDet /\ [][NextDet]_vars

\* ================================================================ claims
\* What the claims speak of, stated from the format rather than from the writer.
Fields == <<_natoms, _nsteps, _timestep, _current, _has_box, _titles>>
Setters == {"setHeader", "setTitles", "setTitle", "addTitle"}
IsRuntimeError(e) == e \in {"runtime_error: atom count mismatch", "runtime_error: missing box"}

Record(len, data) == <<<<"len", len>>>> \o data \o <<<<"len", len>>>>
ExpectedBox(b) ==
  Record(48, <<<<"f64lo", b[1]>>, <<"f64hi", b[1]>>, <<"f64lo", 90>>, <<"f64hi", 90>>,
               <<"f64lo", b[2]>>, <<"f64hi", b[2]>>, <<"f64lo", 90>>, <<"f64hi", 90>>,
               <<"f64lo", 90>>, <<"f64hi", 90>>, <<"f64lo", b[3]>>, <<"f64hi", b[3]>>>>)
ExpectedAxis(g, axis) ==
  Record(4 * Len(g.coords), [i \in 1..Len(g.coords) |-> <<"f32", ToFloat(g.coords[i][axis])>>])
ExpectedFrame(g, boxed) ==
  (IF boxed THEN ExpectedBox(g.box) ELSE <<>>)
    \o ExpectedAxis(g, 1) \o ExpectedAxis(g, 2) \o ExpectedAxis(g, 3)

RECURSIVE ExpectedFrames(_, _)
ExpectedFrames(gs, boxed) ==
  IF gs = <<>> THEN <<>> ELSE ExpectedFrame(Head(gs), boxed) \o ExpectedFrames(Tail(gs), boxed)

\* The last n words of the stream.
LastWords(f, n) == SubSeq(f, Len(f) - n + 1, Len(f))
HeaderOnStream == \E i \in 1..Len(file) : file[i] = CordWord
IsPrefix(a, b) == Len(a) <= Len(b) /\ SubSeq(b, 1, Len(a)) = a

\* C1 (as claimed): a writeFrame called with _current >= _nsteps seeks to the
\* start, adds exactly one to the declared frame count, rewrites the header and
\* seeks back to the end before it appends any record of the frame; and after
\* every successful writeFrame the declared frame count is >= framesWritten().
C1_Growth ==
  [][(op' \in {"writeFrame", "writeFrames"} /\ err' = "" /\ _current' > _current)
       => /\ (op' = "writeFrame" /\ _current >= _nsteps)
               => /\ IsPrefix(<<"seekp(0)", "++_nsteps", "header", "seekp(end)">>, ops')
                  /\ _nsteps' = _nsteps + 1
          /\ _nsteps' >= _current']_vars

\* The part of C1 that the code keeps: the order of the rewrite.
C1_RewriteOrder ==
  [][(op' = "writeFrame" /\ err' = "" /\ _current >= _nsteps)
       => /\ IsPrefix(<<"seekp(0)", "++_nsteps", "header", "seekp(end)">>, ops')
          /\ _nsteps' = _nsteps + 1
          /\ IsPrefix(HeaderWords([natoms |-> _natoms', nsteps |-> _nsteps',
                                   timestep |-> _timestep', has_box |-> _has_box',
                                   titles |-> _titles']), file')]_vars

\* C2 (as claimed): the first record ever put on the stream is a header, never
\* a frame record, however the writer is used.
C2_HeaderFirst == firstRecord # "frame"

\* C3 (as claimed): once a header is on the stream, setHeader, setTitles,
\* setTitle and addTitle throw logic_error and change no header field.
C3_HeaderFreeze ==
  [][(HeaderOnStream /\ op' \in Setters /\ calls' = calls + 1)
       => (err' = LogicError /\ Fields' = Fields)]_vars

\* C4 (as claimed): every frame accepted by one writer has the number of atoms
\* of the first frame it accepted, an empty first frame included.
C4_FixedAtomCount == \A i \in 1..Len(frames) : Size(frames[i]) = Size(frames[1])

\* Whether writeFrame must refuse g in the current state.
Refused(g, na, hb) == na # 0 /\ (Size(g) # na \/ (hb /\ ~g.periodic))

C6_FrameLayout ==
  [][(op' = "writeFrame" /\ calls' = calls + 1 /\ err' = "")
       => LET words == ExpectedFrame(arg', _has_box')
          IN  /\ Len(arg'.coords) = _natoms'
              /\ Len(file') >= Len(file) + Len(words)
              /\ LastWords(file', Len(words)) = words
              /\ pos' = Len(file')
              /\ (_current < _nsteps => file' = file \o words)]_vars

C6_Witness == op = "writeFrame" /\ err = "" /\ _has_box /\ _natoms = MaxAtoms /\ _current = 2

\* ---- superposition: what the claims speak of.
Succeeded == sop # "none" /\ serr = <<>>

\* The determinant of the rotation block of a 4x4 transform.
BlockDet(W) ==
  W[1][1] * (W[2][2] * W[3][3] - W[2][3] * W[3][2])
    - W[1][2] * (W[2][1] * W[3][3] - W[2][3] * W[3][1])
    + W[1][3] * (W[2][1] * W[3][2] - W[2][2] * W[3][1])

\* The rotation block of W applied to a vector.
BlockTimes(W, v) ==
  <<W[1][1] * v[1] + W[1][2] * v[2] + W[1][3] * v[3],
    W[2][1] * v[1] + W[2][2] * v[2] + W[2][3] * v[3],
    W[3][1] * v[1] + W[3][2] * v[2] + W[3][3] * v[3]>>

\* Entry (i,j) of the product U Vt that dgemm_ left in the column-major array M.
ProductEntry(M, i, j) == At(M, i + 3 * j)

\* Points the transform is tried on, besides the atoms themselves.
Probes == {<<0, 0, 0>>, <<1, 0, 0>>, <<0, 1, 0>>, <<0, 0, 1>>, <<2, -3, 5>>}

\* C7 (as claimed): whatever factors the solver returns, singular R included,
\* the rotation block of the transform superposition returns has determinant
\* +1, never -1.
C7_ProperRotation == Succeeded => BlockDet(ret) = 1

\* The part of C7 that the code keeps: where det(R) is not zero the rotation
\* block has determinant +1, for a mirror image of the reference too.
C7_ProperUnlessSingular ==
  [][(sop' # "none" /\ serr' = <<>> /\ DetR(Correlation(atoms, grp)) # 0)
       => BlockDet(ret') = 1]_vars

\* C8: the transform superposition returns is translate(yc) * Z * translate(-xc),
\* with xc the centroid of the moving group and yc that of the reference: its
\* last row is 0 0 0 1, it carries every point p to yc + Z (p - xc), and so
\* the moving centroid onto the reference centroid.
C8_Composition ==
  [][(sop' # "none" /\ serr' = <<>>)
       => \E xc \in {centroid(atoms)}, yc \in {centroid(grp)} :
            /\ ret'[4] = <<0, 0, 0, 1>>
            /\ <<ret'[1][4], ret'[2][4], ret'[3][4]>>
                 = VAdd(yc, VNeg(BlockTimes(ret', xc)))
            /\ \A p \in Probes \cup {atoms[i] : i \in 1..Len(atoms)} :
                 Transform(ret', p) = VAdd(yc, BlockTimes(ret', VAdd(p, VNeg(xc))))
            /\ Transform(ret', xc) = yc]_vars

C8_Witness ==
  /\ sop = "superposition" /\ serr = <<>>
  /\ centroid(atoms) # <<0, 0, 0>> /\ centroid(atoms) # centroid(grp)
  /\ BlockTimes(ret, <<1, 2, 3>>) # <<1, 2, 3>>

\* C9 (as claimed): entry (i,j) of the rotation block of the returned transform
\* is entry (i,j) of the product U Vt of the (possibly adjusted) factors.
C9_RotationIsProduct ==
  Succeeded => \A i, j \in 0..2 : ret[i + 1][j + 1] = ProductEntry(rot, i, j)

\* C9 (amended): entry (i,j) of the rotation block of the returned transform is
\* entry (j,i) of the product U Vt: the rotation is the transpose of U Vt,
\* that is V Ut.
C9_RotationIsTransposedProduct ==
  Succeeded => \A i, j \in 0..2 : ret[i + 1][j + 1] = ProductEntry(rot, j, i)

C9_Witness == Succeeded /\ rot # Transpose3(rot)

\* With the transposed product a moving group that is a properly rotated and
\* displaced copy of the reference is carried exactly onto the reference.
KabschRecovers ==
  [][(sop' = "alignOnto" /\ serr' = <<>> /\ DetR(Correlation(atoms, grp)) > 0)
       => atoms' = grp]_vars

\* C10: alignOnto returns a transform that superposition computes from the
\* coordinates before the call, puts in place of every coordinate of the moving
\* group that transform applied to it (same order, same number) and leaves the
\* reference alone; when superposition throws, nothing has moved; and
\* superposition itself changes the coordinates of neither group.
C10_AlignOntoEffect ==
  [][/\ sop' = "alignOnto"
          => /\ grp' = grp
             /\ Len(atoms') = Len(atoms)
             /\ IF serr' = <<>>
                THEN /\ \E c \in {Centred(atoms, grp)} :
                          \E o \in dgesvd(c.R) : ret' = superposition(c, o).ret
                     /\ \A i \in 1..Len(atoms) : atoms'[i] = Transform(ret', atoms[i])
                ELSE atoms' = atoms
     /\ sop' = "superposition" => (atoms' = atoms /\ grp' = grp)]_vars

C10_Witness ==
  /\ sop = "alignOnto" /\ serr = <<>>
  /\ ret # Identity4
  /\ atoms = grp

\* ---- the determinant.
\* Entry (i,j) of a 3x3 matrix stored column-major.
Entry(Rm, i, j) == At(Rm, i + 3 * j)

\* The sign of a permutation of 1..3, from its inversions.
Sign(pm) ==
  IF Cardinality({ij \in (1..3) \X (1..3) : ij[1] < ij[2] /\ pm[ij[1]] > pm[ij[2]]}) % 2 = 0
  THEN 1 ELSE -1

RECURSIVE SumOver(_, _)
SumOver(S, f) ==
  IF S = {} THEN 0 ELSE LET x == CHOOSE y \in S : TRUE IN f[x] + SumOver(S \ {x}, f)

\* The determinant by Leibniz' formula.
Leibniz(Rm) ==
  SumOver(Perms3, [pm \in Perms3 |->
     Sign(pm) * Entry(Rm, 0, pm[1] - 1) * Entry(Rm, 1, pm[2] - 1) * Entry(Rm, 2, pm[3] - 1)])

\* C18: the value superposition computes from R[0..8] is the determinant of the
\* column-major matrix R, for every R.
C18_Determinant == (detOut # <<>>) => detOut[1] = Leibniz(Rin)

C18_Witness ==
  /\ detOut # <<>> /\ detOut[1] < 0
  /\ \A e \in 1..9 : Rin[e] # 0

\* ---- momentsOfInertia and principalAxes: what the claims speak of.
EigenOps == {"momentsOfInertia", "principalAxes"}

\* A symmetric 3x3 array times a vector; the dot product.
TimesVector(A, v) ==
  <<Entry(A, 0, 0) * v[1] + Entry(A, 0, 1) * v[2] + Entry(A, 0, 2) * v[3],
    Entry(A, 1, 0) * v[1] + Entry(A, 1, 1) * v[2] + Entry(A, 1, 2) * v[3],
    Entry(A, 2, 0) * v[1] + Entry(A, 2, 1) * v[2] + Entry(A, 2, 2) * v[3]>>
Inner(v, w) == v[1] * w[1] + v[2] * w[2] + v[3] * w[3]
Scaled(k, v) == <<k * v[1], k * v[2], k * v[3]>>

\* C11: a solver status other than 0 (below 0: an illegal argument; above 0: no
\* convergence) in momentsOfInertia, principalAxes and superposition raises a
\* NumericalError carrying that status; then nothing is returned and no
\* coordinate of either group has changed.  A status of 0 raises nothing and a
\* result is returned.
C11_FailurePropagation ==
  [][(sop' \in EigenOps \cup {"superposition", "alignOnto"})
       => IF info' # 0
          THEN /\ serr' = <<"NumericalError", info'>>
               /\ ret' = <<>>
               /\ atoms' = atoms /\ grp' = grp /\ mass' = mass
          ELSE /\ serr' = <<>>
               /\ Len(ret') = 4]_vars

C11_Witness ==
  /\ sop = "principalAxes" /\ info > 0
  /\ serr = <<"NumericalError", info>> /\ ret = <<>>

\* C12: with eigenvalues ascending and eigenvector k in column k from the
\* solver, momentsOfInertia and principalAxes return 4 entries: entries 0..2
\* are unit vectors, orthogonal in pairs, entry k an eigenvector of the matrix
\* handed to the solver; entry 3 holds the eigenvalues divided by the number of
\* points, in descending order, component k that of entry k.
C12_EigenOrdering ==
  (sop \in EigenOps /\ serr = <<>>)
    => /\ Len(ret) = 4
       /\ ret[4][1] >= ret[4][2] /\ ret[4][2] >= ret[4][3]
       /\ \A k \in 1..3 :
            /\ TimesVector(tensor, ret[k]) = Scaled(Len(atoms) * ret[4][k], ret[k])
            /\ \A l \in 1..3 : Inner(ret[k], ret[l]) = (IF k = l THEN 1 ELSE 0)

C12_Witness ==
  /\ sop = "momentsOfInertia" /\ serr = <<>>
  /\ ret[4][1] > ret[4][2] /\ ret[4][2] > ret[4][3]
  /\ ret[1] # <<0, 0, 1>>

\* C19: the array momentsOfInertia hands to the solver is symmetric; with u the
\* coordinates relative to the center of mass (about which the first moment
\* of the masses is zero), entry (i,i) is the sum of m times the squares of
\* the two other components of u and entry (i,j) the negated sum of m u_i u_j.
C19_InertiaTensor ==
  (sop = "momentsOfInertia")
    => \E c \in {centerOfMass(atoms, mass)} :
         /\ \A x \in 1..3 : Sigma([k \in 1..Len(atoms) |-> mass[k] * (atoms[k][x] - c[x])],
                                  Len(atoms)) = 0
         /\ \A i, j \in 1..3 :
              /\ Entry(tensor, i - 1, j - 1) = Entry(tensor, j - 1, i - 1)
              /\ Entry(tensor, i - 1, j - 1) =
                   Sigma([k \in 1..Len(atoms) |->
                            IF i = j
                            THEN mass[k] * (Inner(VAdd(atoms[k], VNeg(c)), VAdd(atoms[k], VNeg(c)))
                                            - (atoms[k][i] - c[i]) * (atoms[k][i] - c[i]))
                            ELSE -(mass[k] * (atoms[k][i] - c[i]) * (atoms[k][j] - c[j]))],
                         Len(atoms))

C19_Witness ==
  /\ sop = "momentsOfInertia"
  /\ mass = <<1, 3>>
  /\ Entry(tensor, 0, 1) # 0 /\ Entry(tensor, 0, 2) # 0 /\ Entry(tensor, 1, 2) # 0

\* C13 (as claimed): superposition or alignOnto on a moving and a reference
\* group of different sizes raises CardinalityMismatch and returns no
\* transform.
C13_CardinalityMismatch ==
  (sop # "none" /\ Len(atoms) # Len(grp))
    => (serr = <<"CardinalityMismatch">> /\ ret = <<>>)

\* C17 (as claimed): a PDB object, however it was made, reports strict() false
\* until strict(true) is called on it, and the PDB copy() yields has the
\* showCharge, autoTerminate and strict settings of the original.
C17_DefaultStrictness ==
  /\ (pdb # <<>> /\ ~strictCalled) => ~pdb.strictness_policy
  /\ (pdbop = "copy" /\ perr = "")
       => /\ pdb._show_charge = pdbFrom._show_charge
          /\ pdb._auto_ter = pdbFrom._auto_ter
          /\ pdb.strictness_policy = pdbFrom.strictness_policy

\* The part of C17 that the code keeps: the default, the file-name and the
\* stream constructors give strict() false, and copy() keeps showCharge and
\* autoTerminate.
C17_ConstructorsAndCopy ==
  /\ pdbop \in {"PDB()", "PDB(fname)", "PDB(ifs)"} /\ perr = "" => ~pdb.strictness_policy
  /\ (pdbop = "copy")
       => /\ pdb._show_charge = pdbFrom._show_charge
          /\ pdb._auto_ter = pdbFrom._auto_ter

\* C20 (as claimed): over any sequence of setHeader, title changes, writeHeader
\* and writeFrame no header write ever lands on words of a frame record
\* written before it.
C20_HeaderPreservesFrames == ~clobbered

\* ------------------------------------------------- iterativeAlignment
IterStates == {"idle", "iterating", "converged", "exhausted"}

IterReturned == istate \in {"converged", "exhausted"}

IterStateMachine ==
  /\ istate \in IterStates
  /\ iters <= IterCap
  /\ istate = "iterating" => iters < IterCap /\ irmsd # "below"
  /\ istate = "converged" <=> irmsd = "below"
  /\ istate = "exhausted" => iters = IterCap /\ irmsd = "above"

\* Whichever way the loop ends, control goes back to the caller.
IterReturnsNormally ==
  istate = "iterating" /\ istate' \in {"converged", "exhausted"}
    => tpc' = iret /\ iters' = iters + 1

Carried(bs, i) ==
  IF i = 1 THEN Average(bs[1])
  ELSE Aligned(Average(bs[i]), Average(bs[i - 1]))

\* The rows of a whole run on the list bs.
ExpectedRows(bs) ==
  [i \in 1..(Len(bs) - 1) |-> <<bs[i + 1], Rmsd(Carried(bs, i), Carried(bs, i + 1))>>]

AvgEnded == tpc \in {"done", "fault", "NumericalError"}

\* C16: for a list b0..bk avgconv prints exactly k rows labelled b1..bk in
\* order, row i being the RMSD between the average of block i aligned onto
\* the preceding structure and that preceding structure, and what is carried
\* forward after row i is block i's aligned average.
C16_ConsecutiveRows ==
  tool = "avgconv" /\ Len(blocks) >= 1 =>
    /\ AvgEnded => rows = ExpectedRows(blocks)
    /\ bidx >= 1 => preceding = Carried(blocks, bidx)

\* What holds of the runs in which no block size exceeds the ensemble and no
\* alignment throws.
C16_RowsWhenInRange ==
  /\ tool = "avgconv" /\ Len(blocks) >= 1
  /\ \A i \in 1..Len(blocks) : blocks[i] <= nframes
  /\ tpc # "NumericalError"
  => /\ tpc = "done" => rows = ExpectedRows(blocks)
     /\ bidx >= 1 => preceding = Carried(blocks, bidx)
     /\ rows = SubSeq(ExpectedRows(blocks), 1, Len(rows))


\* ------------------------------------------------- block_avgconv
\* The unordered pairs of n block averages.
PairsOf(n) == {p \in (0..(n - 1)) \X (0..(n - 1)) : p[1] < p[2]}

\* rs holds one value for every pair of n averages and nothing else.
OnePerPair(rs, n) ==
  /\ Len(rs) = (n * (n - 1)) \div 2
  /\ {rs[k] : k \in 1..Len(rs)} = PairsOf(n)

PairsEntered == tool = "block_avgconv" /\ tpc = "pairs" /\ tj = 0

RowDue == tpc = "print" /\ OnePerPair(recs, navg)

RowsPrinted == \A k \in 1..Len(rows) : OnePerPair(rows[k][3], rows[k][2])

\* C15: for each block size, with n block averages, block_avgconv records
\* one RMSD for every pair j < i of them, n(n-1)/2 values, for every
\* n >= 0, and then prints the row of that block size (unless an alignment
\* throws).
C15_PairwiseRows ==
  /\ [](tool = "block_avgconv" => RowsPrinted)
  /\ PairsEntered ~> (RowDue \/ tpc = "NumericalError")
  /\ (tpc = "print") ~> (tpc = "block")

\* The same of the block sizes that leave one average at least.
C15_PairsWhenAveraged ==
  /\ [](tool = "block_avgconv" => RowsPrinted)
  /\ (PairsEntered /\ navg >= 1) ~> (RowDue \/ tpc = "NumericalError")
  /\ (tpc = "print") ~> (tpc = "block")

\* With no average (blocksize = ensemble.size()) the loop over j is entered
\* and goes on.
C15_NoAverageNoRow ==
  [][tool = "block_avgconv" /\ tpc = "pairs" /\ navg = 0 => tpc' = "pair"]_vars


====
